---- MODULE Spec2Model ----
(***************************************************************************)
(* Stale-while-revalidate cache of api/get-propaganda.js: fetchMarketCap   *)
(* over the module-level `cache`, with the upstream call wrapped by        *)
(* withRetry(withTimeout(getProfile)).                                     *)
(*                                                                         *)
(* JavaScript runs one macrotask at a time, and a chain of promise         *)
(* continuations (microtasks) runs to its end before the next macrotask.   *)
(* Every action below is therefore one macrotask with the continuations it *)
(* releases: an incoming request, the settling of a getProfile promise, a  *)
(* timer callback.  Date.now() is the variable `now`; it advances in steps *)
(* of Tick and a timer that is due fires before the clock advances again.  *)
(***************************************************************************)
EXTENDS Integers, Sequences, FiniteSets, TLC

\* ---- program constants (src/api/get-propaganda.js, lines 19-23) ----
TIMEOUT_MS == 8000
RETRIES == 2
BACKOFF_BASE_MS == 250
CACHE_TTL_MS == 30000
STALE_WHILE_REVALIDATE_MS == 60000

\* ---- bounds of the model ----
MaxFetches == 2      \* fetchFromZora calls running at the same time
MaxJoiners == 2      \* calls awaiting one revalidation at the same time
MaxOps == 4          \* getProfile calls issued in one behaviour
MaxTime == 120000    \* last value of Date.now()
Tick == 30000        \* granularity of Date.now()

OpIds == 1 .. MaxOps

\* Math.random() * 100 lies in [0, 100): its two ends.
Jitters == {0, 99}

\* What a getProfile promise can settle to: a response with a profile, a
\* response without one, a rejection.
Settlements == {"ok", "noprofile", "rejected"}

NULL == 0

VARIABLES
    now,          \* Date.now()
    cache,        \* the module-level cache object
    fetches,      \* the fetchFromZora() calls that are running
    joiners,      \* the fetchMarketCap() calls suspended at line 120
    ops,          \* ops[o]: the o-th getProfile() promise
    resp,         \* the fetchMarketCap() calls the last step ended
    installedAt,  \* history: Date.now() of the last updateCache, -1 before
    revalidations, \* history: revalidations started since the last updateCache
    revalidated,  \* history: time and value of the last updateCache at line 105
    timers        \* the getProfile calls whose setTimeout of line 62 is pending

vars == <<now, cache, fetches, joiners, ops, resp, installedAt, revalidations, revalidated, timers>>

\* ---------------------------------------------------------------------
\* Pure parts of the code
\* ---------------------------------------------------------------------

\* let cache = {...}  (lines 30-36)
EmptyCache ==
    [data |-> NULL, expiresAt |-> 0, staleUntil |-> 0,
     isRevalidating |-> FALSE, revalidationPromise |-> NULL]

\* updateCache that forgets the time to live.
updateCache_NoTtl(data, t) ==
    [data |-> data,
     expiresAt |-> t,
     staleUntil |-> t + STALE_WHILE_REVALIDATE_MS,
     isRevalidating |-> FALSE,
     revalidationPromise |-> NULL]

\* updateCache that assigns the value and keeps the other fields.
updateCache_ValueOnly(data, t) == [cache EXCEPT !.data = data]

\* updateCache whose stale window ends before the fresh one.
updateCache_StaleFirst(data, t) ==
    [data |-> data,
     expiresAt |-> t + CACHE_TTL_MS,
     staleUntil |-> t,
     isRevalidating |-> FALSE,
     revalidationPromise |-> NULL]

\* updateCache(data) at time t  (lines 155-164)
updateCache(data, t) ==
    [data |-> data,
     expiresAt |-> t + CACHE_TTL_MS,
     staleUntil |-> t + CACHE_TTL_MS + STALE_WHILE_REVALIDATE_MS,
     isRevalidating |-> FALSE,
     revalidationPromise |-> NULL]

\* A finally block that resets the whole cache object.
revalidationFinally_Reset(c) ==
    [data |-> NULL, expiresAt |-> 0, staleUntil |-> 0,
     isRevalidating |-> FALSE, revalidationPromise |-> NULL]

\* A finally block that clears the flag and keeps the handle.
revalidationFinally_FlagOnly(c) == [c EXCEPT !.isRevalidating = FALSE]

\* A finally block that also drops the cached value.
revalidationFinally_DropsValue(c) ==
    [c EXCEPT !.data = NULL, !.isRevalidating = FALSE,
              !.revalidationPromise = NULL]

\* the finally block of the background task  (lines 108-111)
revalidationFinally(c) ==
    [c EXCEPT !.isRevalidating = FALSE, !.revalidationPromise = NULL]

\* if (cache.data && cache.expiresAt > now)  (line 93)
IsFreshHit(c, t) == c.data # NULL /\ c.expiresAt > t

\* if (cache.data && cache.staleUntil > now)  (line 98), reached when line 93 fails
IsStaleHit(c, t) == ~IsFreshHit(c, t) /\ c.data # NULL /\ c.staleUntil > t

\* A stale hit that does not look at the flag.
StartsRevalidation_Always(c) == TRUE

\* if (!cache.isRevalidating)  (line 100)
StartsRevalidation(c) == ~c.isRevalidating

\* if (cache.revalidationPromise)  (line 119), reached when lines 93, 98 fail
IsJoin(c, t) ==
    ~IsFreshHit(c, t) /\ ~IsStaleHit(c, t) /\ c.revalidationPromise # NULL

\* lines 124-127, reached when lines 93, 98, 119 fail
IsMiss(c, t) ==
    ~IsFreshHit(c, t) /\ ~IsStaleHit(c, t) /\ c.revalidationPromise = NULL

\* A backoff whose exponent is one too high.
Backoff_OneTooHigh(attempt, jitter) ==
    BACKOFF_BASE_MS * (2 ^ (attempt + 1)) + jitter

\* BACKOFF_BASE_MS * Math.pow(2, attempt) + Math.random() * 100  (line 77)
Backoff(attempt, jitter) == BACKOFF_BASE_MS * (2 ^ attempt) + jitter

\* A retry test that is off by one.
RetriesExhausted_OffByOne(attempt) == attempt > RETRIES

\* if (attempt >= retries) throw e  (line 76)
RetriesExhausted(attempt) == attempt >= RETRIES

\* A race that the timer does not settle.
Discarded_Never(timedOut) == FALSE

\* Promise.race (lines 59-64): a promise whose race the timer already
\* settled has no effect on the attempt when it settles later.
Discarded(timedOut) == timedOut

\* A finally block that leaves the timer armed.
clearTimeout_Noop(ts, o) == ts

\* clearTimeout(timer) in the finally block of withTimeout  (line 66); a
\* timer that fired or was cleared before is not pending and nothing happens.
clearTimeout(ts, o) == ts \ {o}

\* A withTimeout that arms no timer.
setTimeout_Never(ts, o) == ts

\* timer = setTimeout(...)  (line 62)
setTimeout(ts, o) == ts \cup {o}

\* A foreground path that swallows the error of its fetch.
ForegroundThrows_Never(outcome) == FALSE

\* const freshData = await fetchFromZora()  (line 125): an error of the
\* foreground fetch is thrown out of fetchMarketCap.
ForegroundThrows(outcome) == outcome # "ok"

\* A background task without its catch block.
RevalidationSettles_NoCatch(outcome) ==
    IF outcome = "ok" THEN "resolved" ELSE "rejected"

\* try { ... } catch (e) { console.error(...) }  (lines 103-107): how the
\* promise of the background task settles for each outcome of its fetch.
RevalidationSettles(outcome) == "resolved"

\* A handler that answers every error with the failure response.
handler_NoFallback(threw, source, data, c) ==
    IF ~threw
    THEN [status |-> 200, success |-> TRUE, data |-> data, source |-> source]
    ELSE [status |-> 500, success |-> FALSE, data |-> NULL, source |-> "none"]

\* handler() for a GET request with the API key set, from the end of
\* fetchMarketCap on  (lines 199-233): the answer when the call returned
\* {data, source} or threw, c being the cache the catch block reads.
handler(threw, source, data, c) ==
    IF ~threw
    THEN [status |-> 200, success |-> TRUE, data |-> data, source |-> source]
    ELSE IF c.data # NULL
         THEN [status |-> 200, success |-> TRUE, data |-> c.data,
               source |-> "cache-error-fallback"]
         ELSE [status |-> 500, success |-> FALSE, data |-> NULL,
               source |-> "none"]

\* ---------------------------------------------------------------------
\* State
\* ---------------------------------------------------------------------

\* Requests are interchangeable, so a call of fetchMarketCap is known by what
\* it saw when it began: Date.now(), the cache, installedAt.
Entry ==
    [at |-> now, pre |-> cache, preInstalledAt |-> installedAt,
     preRevalidated |-> revalidated]

NoRevalidation == [at |-> -1, data |-> NULL]

NoEntry ==
    [at |-> 0, pre |-> EmptyCache, preInstalledAt |-> -1,
     preRevalidated |-> NoRevalidation]

Init ==
    /\ now = 0
    /\ cache = EmptyCache
    /\ fetches = {}
    /\ joiners = {}
    /\ ops = << >>
    /\ resp = {}
    /\ installedAt = -1
    /\ revalidations = 0
    /\ revalidated = NoRevalidation
    /\ timers = {}

\* A timer that is due and has not run its callback yet.
TimerDue(F) == F.timer <= now

NewOp(id) == [st |-> "pending", timedOut |-> FALSE, f |-> id]

\* fetchFromZora() up to its first await: withRetry calls fn(), which calls
\* getProfile() and arms the timer of withTimeout  (lines 131-132, 71-74,
\* 57-63).  The fetch is known by its first getProfile call; entry is the
\* call awaiting it at line 125 (NoEntry for a background task).
StartedFetch(kind, entry) ==
    [id |-> Len(ops) + 1, kind |-> kind, st |-> "racing", attempt |-> 0,
     op |-> Len(ops) + 1, timer |-> now + TIMEOUT_MS, backoff |-> 0,
     entry |-> entry]

\* The value a call of fetchMarketCap returns (threw = FALSE) or the error it
\* throws (threw = TRUE), with what the call did: the path it took ("hit",
\* "foreground", "join"), whether it started a fetchFromZora, whether it
\* awaited, and the fetch it awaited with the way that fetch ended; answer
\* is what the handler makes of it, c being the cache as the call leaves it.
Response(entry, path, threw, source, data, started, suspended, outcome, attempts, awaited, c) ==
    [entry |-> entry, path |-> path, threw |-> threw, source |-> source,
     data |-> data, started |-> started, suspended |-> suspended,
     outcome |-> outcome, attempts |-> attempts, awaited |-> awaited,
     answer |-> handler(threw, source, data, c)]

\* ---------------------------------------------------------------------
\* The end of a fetchFromZora call and the continuations it releases
\* ---------------------------------------------------------------------

\* F: the fetch; outcome: "ok" (lines 146-152), "noprofile" (line 138) or
\* "exhausted" (line 76).  A foreground fetch resumes fetchMarketCap at line
\* 126 or throws out of it; a background fetch resumes the task at line 105
\* or 107, runs its finally block and resumes every call awaiting the task
\* at line 121.
Finish(F, outcome, data) ==
    LET installed == IF outcome = "ok" THEN updateCache(data, now) ELSE cache
        after == IF F.kind = "bg" THEN revalidationFinally(installed)
                 ELSE installed
        waiting == {J \in joiners : J.awaiting = F.id}
    IN  /\ fetches' = fetches \ {F}
        /\ cache' = after
        /\ installedAt' = IF outcome = "ok" THEN now ELSE installedAt
        /\ revalidations' = IF outcome = "ok" THEN 0 ELSE revalidations
        /\ revalidated' = IF outcome = "ok" /\ F.kind = "bg"
                           THEN [at |-> now, data |-> data]
                           ELSE revalidated
        /\ joiners' = IF F.kind = "bg" THEN joiners \ waiting ELSE joiners
        /\ resp' =
             IF F.kind = "fg"
             THEN {Response(F.entry, "foreground", ForegroundThrows(outcome),
                            "live", data, TRUE, TRUE,
                            outcome, F.attempt + 1, F.id, after)}
             ELSE {Response(J.entry, "join",
                            RevalidationSettles(outcome) # "resolved",
                            "cache-revalidated", after.data, FALSE, TRUE,
                            outcome, F.attempt + 1, F.id, after) : J \in waiting}

\* catch (e) of withRetry  (lines 75-80)
AttemptFails(F, jitter) ==
    IF RetriesExhausted(F.attempt)
    THEN Finish(F, "exhausted", NULL)
    ELSE /\ fetches' = (fetches \ {F}) \cup
               {[F EXCEPT !.st = "sleeping",
                          !.backoff = Backoff(F.attempt, jitter),
                          !.timer = now + Backoff(F.attempt, jitter)]}
         /\ UNCHANGED <<cache, joiners, resp, installedAt, revalidations, revalidated>>

\* ---------------------------------------------------------------------
\* Actions
\* ---------------------------------------------------------------------

\* The handler of a call that ended continues in the same chain of
\* continuations (lines 199-233): nothing else runs before it has answered.
Quiet == resp = {}

\* fetchMarketCap(), lines 93-95
FreshHit ==
    /\ Quiet
    /\ IsFreshHit(cache, now)
    /\ resp' = {Response(Entry, "hit", FALSE, "cache-fresh", cache.data,
                         FALSE, FALSE, "none", 0, NULL, cache)}
    /\ UNCHANGED <<now, cache, fetches, joiners, ops, installedAt, revalidations, revalidated, timers>>

\* fetchMarketCap(), lines 98-115, the revalidation started at lines 100-113
StaleHitStart ==
    /\ Quiet
    /\ IsStaleHit(cache, now)
    /\ StartsRevalidation(cache)
    /\ Cardinality(fetches) < MaxFetches
    /\ Len(ops) < MaxOps
    /\ cache' = [cache EXCEPT !.isRevalidating = TRUE,
                              !.revalidationPromise = Len(ops) + 1]
    /\ fetches' = fetches \cup {StartedFetch("bg", NoEntry)}
    /\ ops' = Append(ops, NewOp(Len(ops) + 1))
    /\ revalidations' = revalidations + 1
    /\ resp' = {Response(Entry, "hit", FALSE, "cache-stale", cache.data,
                         TRUE, FALSE, "none", 0, NULL, cache')}
    /\ timers' = setTimeout(timers, Len(ops) + 1)
    /\ UNCHANGED <<now, joiners, installedAt, revalidated>>

\* fetchMarketCap(), lines 98-115, line 100 false
StaleHit ==
    /\ Quiet
    /\ IsStaleHit(cache, now)
    /\ ~StartsRevalidation(cache)
    /\ resp' = {Response(Entry, "hit", FALSE, "cache-stale", cache.data,
                         FALSE, FALSE, "none", 0, NULL, cache)}
    /\ UNCHANGED <<now, cache, fetches, joiners, ops, installedAt, revalidations, revalidated, timers>>

\* fetchMarketCap(), lines 119-120
Join ==
    /\ Quiet
    /\ IsJoin(cache, now)
    /\ LET waiting == {J \in joiners : J.awaiting = cache.revalidationPromise}
       IN /\ Cardinality(waiting) < MaxJoiners
          /\ joiners' = joiners \cup
                {[awaiting |-> cache.revalidationPromise,
                  k |-> Cardinality(waiting) + 1, entry |-> Entry]}
    /\ UNCHANGED <<now, cache, fetches, ops, resp, installedAt, revalidations, revalidated, timers>>

\* fetchMarketCap(), line 125
Miss ==
    /\ Quiet
    /\ IsMiss(cache, now)
    /\ Cardinality(fetches) < MaxFetches
    /\ Len(ops) < MaxOps
    /\ fetches' = fetches \cup {StartedFetch("fg", Entry)}
    /\ ops' = Append(ops, NewOp(Len(ops) + 1))
    /\ timers' = setTimeout(timers, Len(ops) + 1)
    /\ UNCHANGED <<now, cache, joiners, resp, installedAt, revalidations, revalidated>>

\* The promise of getProfile settles while withTimeout still races it
\* (line 59): the attempt ends with the settlement and the finally block of
\* withTimeout clears its timer.
OpSettles(o, s) ==
    /\ Quiet
    /\ o \in 1 .. Len(ops)
    /\ ops[o].st = "pending"
    /\ ~Discarded(ops[o].timedOut)
    /\ ops' = [ops EXCEPT ![o].st = "settled"]
    /\ timers' = clearTimeout(timers, o)
    /\ UNCHANGED now
    /\ \E F \in fetches :
         /\ F.id = ops[o].f
         /\ CASE s = "ok" -> Finish(F, "ok", o)
              [] s = "noprofile" -> Finish(F, "noprofile", NULL)
              [] s = "rejected" -> \E j \in Jitters : AttemptFails(F, j)

\* The promise of getProfile settles after the timer settled its race:
\* nothing awaits it.
OpSettlesLate(o, s) ==
    /\ Quiet
    /\ o \in 1 .. Len(ops)
    /\ ops[o].st = "pending"
    /\ Discarded(ops[o].timedOut)
    /\ ops' = [ops EXCEPT ![o].st = IF s = "ok" THEN "late" ELSE "settled"]
    /\ UNCHANGED <<now, cache, fetches, joiners, resp, installedAt, revalidations, revalidated, timers>>

\* The timer of withTimeout fires  (line 62): it is no longer pending, the
\* race is lost and the finally block runs.
TimeoutFires(F) ==
    /\ Quiet
    /\ F.st = "racing"
    /\ TimerDue(F)
    /\ F.op \in timers
    /\ ops' = [ops EXCEPT ![F.op].timedOut = TRUE]
    /\ timers' = clearTimeout(timers \ {F.op}, F.op)
    /\ UNCHANGED now
    /\ \E j \in Jitters : AttemptFails(F, j)

\* sleep(backoff) ends, attempt++, next turn of the loop  (lines 78-79, 74)
SleepEnds(F) ==
    /\ Quiet
    /\ F.st = "sleeping"
    /\ TimerDue(F)
    /\ Len(ops) < MaxOps
    /\ fetches' = (fetches \ {F}) \cup
          {[F EXCEPT !.st = "racing", !.attempt = F.attempt + 1,
                     !.op = Len(ops) + 1, !.backoff = 0,
                     !.timer = now + TIMEOUT_MS]}
    /\ ops' = Append(ops, NewOp(F.id))
    /\ timers' = setTimeout(timers, Len(ops) + 1)
    /\ UNCHANGED <<now, cache, joiners, resp, installedAt, revalidations, revalidated>>

\* handler(), lines 199-233: the answer to a call that ended is sent.
Respond(r) ==
    /\ resp' = resp \ {r}
    /\ UNCHANGED <<now, cache, fetches, joiners, ops, installedAt, revalidations, revalidated, timers>>

\* Date.now() advances; no due timer is left behind.
Advance ==
    /\ Quiet
    /\ now + Tick <= MaxTime
    /\ \A F \in fetches : ~TimerDue(F)
    /\ now' = now + Tick
    /\ UNCHANGED <<cache, fetches, joiners, ops, resp, installedAt, revalidations, revalidated, timers>>

Next ==
    \/ FreshHit
    \/ StaleHitStart
    \/ StaleHit
    \/ Join
    \/ Miss
    \/ \E o \in OpIds, s \in Settlements : OpSettles(o, s)
    \/ \E o \in OpIds, s \in Settlements : OpSettlesLate(o, s)
    \/ \E F \in fetches : TimeoutFires(F)
    \/ \E F \in fetches : SleepEnds(F)
    \/ \E r \in resp : Respond(r)
    \/ Advance

Spec == Init /\ [][Next]_vars

\* ---------------------------------------------------------------------
\* The same program with requests that stop arriving and timers that fire
\* ---------------------------------------------------------------------

\* Requests arrive while Date.now() can still advance.
Admitted == now + Tick <= MaxTime

\* A request that starts a fetch is taken only if MaxOps leaves room for
\* every attempt of that fetch and of the fetches that are running, so that
\* no retry is ever held back by the bound.
Reserved ==
    /\ Admitted
    /\ Len(ops) + (RETRIES + 1) + RETRIES * Cardinality(fetches) <= MaxOps

\* Time passes beyond MaxTime: no request reads Date.now() any more and
\* every timer that is pending becomes due.
Drain ==
    /\ Quiet
    /\ ~Admitted
    /\ \A F \in fetches : ~TimerDue(F)
    /\ fetches # {}
    /\ fetches' = {[F EXCEPT !.timer = now] : F \in fetches}
    /\ UNCHANGED <<now, cache, joiners, ops, resp, installedAt, revalidations, revalidated, timers>>

LiveNext ==
    \/ Admitted /\ FreshHit
    \/ Reserved /\ StaleHitStart
    \/ Admitted /\ StaleHit
    \/ Admitted /\ Join
    \/ Reserved /\ Miss
    \/ \E o \in OpIds, s \in Settlements : OpSettles(o, s)
    \/ \E o \in OpIds, s \in Settlements : OpSettlesLate(o, s)
    \/ \E F \in fetches : TimeoutFires(F)
    \/ \E F \in fetches : SleepEnds(F)
    \/ \E r \in resp : Respond(r)
    \/ Advance
    \/ Drain

\* The event loop runs the callback of every timer that is due and the
\* continuations of every settled promise, however many requests arrive, and
\* time passes; a getProfile promise may stay pending for ever.
LiveSpec ==
    /\ Init
    /\ [][LiveNext]_vars
    /\ SF_vars(\E F \in fetches : TimeoutFires(F))
    /\ SF_vars(\E F \in fetches : SleepEnds(F))
    /\ WF_vars(\E r \in resp : Respond(r))
    /\ SF_vars(Advance)
    /\ SF_vars(Drain)

\* Sanity of the model: an attempt's promise that is pending and whose timer
\* has not fired belongs to a running fetch that races it.
TypeOK ==
    /\ now \in 0 .. MaxTime
    /\ Len(ops) <= MaxOps
    /\ \A o \in 1 .. Len(ops) :
          (ops[o].st = "pending" /\ ~ops[o].timedOut)
              => \E F \in fetches : F.id = ops[o].f /\ F.op = o /\ F.st = "racing"

\* ---------------------------------------------------------------------
\* Properties
\* ---------------------------------------------------------------------

\* Age of the cached value when the call of entry e began.
Age(e) == e.at - e.preInstalledAt

HadValue(e) == e.pre.data # NULL /\ e.preInstalledAt >= 0

InFreshWindow(e) == HadValue(e) /\ Age(e) < CACHE_TTL_MS

InStaleWindow(e) ==
    /\ HadValue(e)
    /\ CACHE_TTL_MS <= Age(e)
    /\ Age(e) < CACHE_TTL_MS + STALE_WHILE_REVALIDATE_MS

\* C1: single-flight. In every reachable state at most one fetchFromZora
\* call (foreground or background) is running.
C1_SingleFlight == Cardinality(fetches) <= 1

\* C2 as stated: every call that arrives in the stale window of a cached
\* value returns that value with the stale tag without waiting, and exactly
\* one background fetch has been started for that window.
C2_ExactlyOnePerWindow ==
    \A r \in resp : InStaleWindow(r.entry) =>
        /\ ~r.threw /\ r.source = "cache-stale" /\ r.data = r.entry.pre.data
        /\ ~r.suspended
        /\ revalidations = 1

\* C2 amended: every call that arrives in the stale window of a cached value
\* returns that value with the stale tag without waiting; it starts a
\* background fetch exactly when it finds isRevalidating false, and the fetch
\* it starts sets the flag and the handle, so that calls with no fetch ending
\* between them start one background fetch, not one each.
C2_StaleServedFlagGuarded ==
    \A r \in resp : InStaleWindow(r.entry) =>
        /\ ~r.threw /\ r.source = "cache-stale" /\ r.data = r.entry.pre.data
        /\ ~r.suspended
        /\ r.started <=> ~r.entry.pre.isRevalidating
        /\ r.started => cache.isRevalidating /\ cache.revalidationPromise # NULL
        /\ r.started =>
              \E F \in fetches : F.id = cache.revalidationPromise /\ F.kind = "bg"
        /\ revalidations >= 1

\* C2 witness: a stale hit that starts no fetch because a revalidation,
\* the second of this stale window, is running.
C2_Witness ==
    \E r \in resp :
        /\ InStaleWindow(r.entry) /\ ~r.started
        /\ r.entry.pre.isRevalidating
        /\ revalidations = 2

\* C3: every call made less than CACHE_TTL_MS after the fetch that installed
\* the cached value returns that value with the fresh tag, at once, and
\* starts no fetch.
C3_FreshHitNoFetch ==
    \A r \in resp : InFreshWindow(r.entry) =>
        /\ ~r.threw /\ r.source = "cache-fresh" /\ r.data = r.entry.pre.data
        /\ r.path = "hit" /\ ~r.started /\ ~r.suspended

\* C3 witness: a fresh hit on a value installed after the first instant,
\* while a fetch is running.
C3_Witness ==
    \E r \in resp :
        /\ InFreshWindow(r.entry) /\ r.source = "cache-fresh"
        /\ r.entry.preInstalledAt > 0
        /\ fetches # {}

\* The getProfile calls that fetch id issued, one for each attempt.
OpsOf(id) == {o \in 1 .. Len(ops) : ops[o].f = id}

\* The promise of attempt o settled before the timer of its attempt fired.
WonRace(o) == ops[o].st = "settled" /\ ~ops[o].timedOut

\* C4: a call on a cache with no value and no revalidation handle awaits
\* its own foreground fetch; when the fetch succeeds the call returns the
\* fetched value with tag live and the cache holds that value with the
\* windows counted from now; when the fetch fails the call throws and
\* returns no value.
C4_MissBlocksLiveOrThrows ==
    \A r \in resp :
        (r.entry.pre.data = NULL /\ r.entry.pre.revalidationPromise = NULL) =>
            /\ r.path = "foreground" /\ r.started /\ r.suspended
            /\ r.outcome = "ok" =>
                  /\ ~r.threw /\ r.source = "live" /\ r.data # NULL
                  /\ WonRace(r.data) /\ r.data \in OpsOf(r.awaited)
                  /\ cache.data = r.data
                  /\ cache.expiresAt = now + CACHE_TTL_MS
                  /\ cache.staleUntil = now + CACHE_TTL_MS + STALE_WHILE_REVALIDATE_MS
            /\ r.outcome # "ok" => r.threw /\ r.data = NULL
            /\ r.outcome = "exhausted" => r.threw

\* C4 witness: a call on the empty cache throws after its fetch has used
\* up its retries.
C4_Witness ==
    \E r \in resp :
        /\ r.entry.pre.data = NULL /\ r.entry.pre.revalidationPromise = NULL
        /\ r.threw /\ r.outcome = "exhausted"
        /\ cache.data = NULL

\* C5: a fetch that fails on every attempt makes exactly RETRIES + 1
\* attempts before its error is thrown; a fetch that succeeds ends with the
\* first attempt that succeeds, returns the result of that attempt, the last
\* one it made, and makes no attempt afterwards.
C5_RetryCount ==
    /\ \A r \in resp : r.outcome = "exhausted" =>
          /\ Cardinality(OpsOf(r.awaited)) = RETRIES + 1
          /\ r.attempts = RETRIES + 1
          /\ \A o \in OpsOf(r.awaited) : ops[o].timedOut \/ ops[o].st = "settled"
    /\ \A r \in resp : (r.outcome = "ok" /\ r.path = "foreground") =>
          /\ r.data \in OpsOf(r.awaited) /\ WonRace(r.data)
          /\ \A o \in OpsOf(r.awaited) : o <= r.data
          /\ \A o \in OpsOf(r.awaited) : o # r.data => ops[o].timedOut \/ ops[o].st = "settled"
          /\ Cardinality(OpsOf(r.awaited)) = r.attempts
          /\ r.attempts <= RETRIES + 1
    /\ \A F \in fetches : Cardinality(OpsOf(F.id)) = F.attempt + 1
    /\ \A o \in 1 .. Len(ops) :
          (\A F \in fetches : F.id # ops[o].f) =>
              (ops[o].timedOut \/ ops[o].st = "settled")

\* C5 witness: a foreground fetch ends exhausted after three attempts.
C5_Witness ==
    \E r \in resp :
        /\ r.outcome = "exhausted" /\ r.path = "foreground"
        /\ Cardinality(OpsOf(r.awaited)) = 3

\* C6: the backoff slept after failed attempt i (i < RETRIES) is at least
\* BACKOFF_BASE_MS * 2^i and less than BACKOFF_BASE_MS * 2^i + 100.
C6_BackoffRange ==
    \A F \in fetches : F.st = "sleeping" =>
        /\ F.attempt < RETRIES
        /\ F.backoff >= BACKOFF_BASE_MS * (2 ^ F.attempt)
        /\ F.backoff < BACKOFF_BASE_MS * (2 ^ F.attempt) + 100

\* C6 witness: the sleep after the second failed attempt, with the largest
\* jitter.
C6_Witness ==
    \E F \in fetches : F.st = "sleeping" /\ F.attempt = 1 /\ F.backoff = 599

\* C7: the value of a getProfile promise that settles after the timer of
\* its attempt fired is never installed in the cache nor returned by a call:
\* the cached value and every returned value come from an attempt whose
\* promise settled before its timer fired.
C7_LateResultDiscarded ==
    /\ cache.data # NULL => WonRace(cache.data)
    /\ \A r \in resp : r.data # NULL => WonRace(r.data)

\* C7 witness: the first attempt of a fetch timed out and its promise
\* resolved late with a value; the cache holds the value of a later attempt
\* of the same fetch.
C7_Witness ==
    \E o \in 1 .. Len(ops) :
        /\ ops[o].st = "late" /\ ops[o].timedOut
        /\ cache.data # NULL /\ cache.data > o
        /\ ops[cache.data].f = ops[o].f

\* The value and the two windows of the cache.
Entry3(c) == <<c.data, c.expiresAt, c.staleUntil>>

\* C8: a step changes the cached value or its windows only by ending a
\* fetch with a result, which becomes the value, with the windows counted
\* from now; every other step, the end of a failed fetch included, leaves
\* value, expiresAt and staleUntil as they were; a value once present never
\* becomes absent.
C8_ValueOnlyFromSuccess ==
    [][ /\ cache.data # NULL => cache'.data # NULL
        /\ Entry3(cache') # Entry3(cache) =>
              \E F \in fetches :
                  /\ F \notin fetches' /\ F.st = "racing"
                  /\ ops[F.op].st = "pending" /\ ops'[F.op].st = "settled"
                  /\ ~ops[F.op].timedOut
                  /\ Entry3(cache') =
                        <<F.op, now + CACHE_TTL_MS,
                          now + CACHE_TTL_MS + STALE_WHILE_REVALIDATE_MS>>
        /\ (\E F \in fetches : F \notin fetches' /\ cache'.data # F.op) =>
              Entry3(cache') = Entry3(cache)
      ]_vars

\* C8 witness: a revalidation of the cached value has failed (it was
\* started in this value's window and no fetch is running) and the value
\* is still cached.
C8_Witness ==
    /\ cache.data # NULL /\ revalidations >= 1
    /\ fetches = {} /\ ~cache.isRevalidating
    /\ cache.expiresAt = installedAt + CACHE_TTL_MS

\* C9: a call throws only when its own foreground fetch failed: no call
\* that returned on a hit and no call that awaited a revalidation throws,
\* however the revalidation ended.
C9_BackgroundFailureSwallowed ==
    \A r \in resp :
        /\ r.threw => (r.path = "foreground" /\ r.started /\ r.outcome # "ok")
        /\ r.path \in {"hit", "join"} => ~r.threw

\* C9 witness: a call that awaited a revalidation returns although the
\* revalidation failed after its retries.
C9_Witness ==
    \E r \in resp :
        /\ r.path = "join" /\ r.outcome = "exhausted" /\ ~r.threw
        /\ Cardinality(OpsOf(r.awaited)) = RETRIES + 1

\* C10: a call that awaited a revalidation returns, with tag revalidated,
\* the value that this revalidation installed, a value newer than the one
\* cached when the call began.
C10_JoinReturnsNewValue ==
    \A r \in resp : r.path = "join" =>
        /\ ~r.threw /\ r.source = "cache-revalidated"
        /\ r.outcome = "ok"
        /\ r.data \in OpsOf(r.awaited)
        /\ r.data # r.entry.pre.data

\* C11: a call returns a value only if the value was still servable when the
\* call began (it was the cached value and staleUntil lay after the time of
\* the call) or the fetch the call awaited, its own foreground fetch or the
\* revalidation it joined, succeeded and installed it.
C11_NoExpiredValueServed ==
    \A r \in resp : (~r.threw /\ r.data # NULL) =>
        \/ r.data = r.entry.pre.data /\ r.entry.pre.staleUntil > r.entry.at
        \/ r.outcome = "ok" /\ r.data \in OpsOf(r.awaited)

\* C12: a call throws only after the retry loop is exhausted: whatever made
\* its fetch fail, RETRIES + 1 attempts were made before the error reached
\* the caller.
C12_ThrowsOnlyAfterRetries ==
    \A r \in resp : r.threw =>
        /\ r.attempts = RETRIES + 1
        /\ Cardinality(OpsOf(r.awaited)) = RETRIES + 1

\* C13: after a revalidation started by a stale hit has installed a value B,
\* every call made less than CACHE_TTL_MS after that returns B with the
\* fresh tag and starts no fetch; the stale hit that started a revalidation
\* returned the value cached then with the stale tag.
C13_FreshAfterRevalidation ==
    \A r \in resp :
        /\ (/\ r.entry.preRevalidated.at >= 0
            /\ r.entry.at - r.entry.preRevalidated.at < CACHE_TTL_MS) =>
               /\ ~r.threw /\ r.source = "cache-fresh" /\ ~r.started
               /\ r.data = r.entry.preRevalidated.data
        /\ (r.started /\ r.path = "hit") =>
               r.source = "cache-stale" /\ r.data = r.entry.pre.data

\* The windows of cache object c are those of a value installed at time t.
Coherent(c, t) ==
    c.data # NULL =>
        /\ c.expiresAt = t + CACHE_TTL_MS
        /\ c.staleUntil = t + CACHE_TTL_MS + STALE_WHILE_REVALIDATE_MS

\* C14: updateCache is atomic. After every step the cached value carries
\* the windows of its own installation, and so does the cache every call
\* saw when it began; the step that replaces the value leaves the windows
\* counted from now, the flag false and the handle null, whatever the
\* previous entry held.
C14_UpdateAtomic ==
    [][ /\ Coherent(cache', installedAt')
        /\ \A r \in resp' : Coherent(r.entry.pre, r.entry.preInstalledAt)
        /\ \A F \in fetches' : Coherent(F.entry.pre, F.entry.preInstalledAt)
        /\ \A J \in joiners' : Coherent(J.entry.pre, J.entry.preInstalledAt)
        /\ cache'.data # cache.data =>
              /\ Coherent(cache', now)
              /\ ~cache'.isRevalidating
              /\ cache'.revalidationPromise = NULL
      ]_vars

\* C14 witness: a call that found an expired value and the handle of a
\* running revalidation resumes on the entry the revalidation installed.
C14_Witness ==
    \E r \in resp :
        /\ r.path = "join" /\ r.outcome = "ok"
        /\ r.entry.pre.data # NULL /\ r.entry.pre.revalidationPromise # NULL
        /\ cache.data # r.entry.pre.data
        /\ cache.expiresAt = now + CACHE_TTL_MS
        /\ cache.revalidationPromise = NULL

\* C15: expiresAt <= staleUntil in every state of the cache, and in the
\* cache every call saw when it began.
C15_FreshBeforeStale ==
    /\ cache.expiresAt <= cache.staleUntil
    /\ \A r \in resp : r.entry.pre.expiresAt <= r.entry.pre.staleUntil

\* C15 witness: a value installed after a fetch that failed and an attempt
\* that timed out, its fresh window strictly inside the stale one.
C15_Witness ==
    /\ cache.data # NULL /\ installedAt > 0
    /\ cache.expiresAt < cache.staleUntil
    /\ \E o \in 1 .. Len(ops) : ops[o].timedOut
    /\ \E o \in 1 .. Len(ops) : ops[o].st = "settled" /\ o < cache.data

\* C17: every pending timeout timer belongs to an attempt that withTimeout
\* is still racing: once an attempt has ended (its promise resolved first,
\* rejected first, or the timer fired) its timer is not pending, and a fetch
\* never has more than one pending timer, whatever the number of retries.
C17_TimerReleased ==
    /\ \A o \in timers :
          /\ o \in 1 .. Len(ops)
          /\ ops[o].st = "pending" /\ ~ops[o].timedOut
          /\ \E F \in fetches : F.op = o /\ F.st = "racing"
    /\ \A F \in fetches : Cardinality(timers \cap OpsOf(F.id)) <= 1
    /\ \A F \in fetches : F.st = "sleeping" => timers \cap OpsOf(F.id) = {}

\* C17 witness: the third attempt of a fetch is racing after one attempt
\* that timed out and one whose promise was rejected first; its timer is the
\* only one pending.
C17_Witness ==
    \E F \in fetches :
        /\ F.st = "racing" /\ F.attempt = 2
        /\ \E o \in OpsOf(F.id) : ops[o].timedOut
        /\ \E o \in OpsOf(F.id) : ops[o].st = "settled" /\ ~ops[o].timedOut
        /\ timers = {F.op}

\* The flag and the handle of cache object c agree.
InStep(c) == c.isRevalidating <=> c.revalidationPromise # NULL

\* C18: in every state between suspension points isRevalidating is true
\* exactly when revalidationPromise is non-null, in the cache and in the
\* cache every call saw when it began.
C18_FlagIffHandle ==
    /\ InStep(cache)
    /\ \A r \in resp : InStep(r.entry.pre)
    /\ \A J \in joiners : InStep(J.entry.pre)
    /\ \A F \in fetches : InStep(F.entry.pre)

\* C18 witness: flag and handle are set by the second revalidation of a
\* value, after the finally block of the first, which failed, cleared both.
C18_Witness ==
    /\ cache.isRevalidating /\ cache.revalidationPromise # NULL
    /\ revalidations = 2
    /\ \E F \in fetches : F.kind = "bg" /\ F.id = cache.revalidationPromise

\* C19: whenever the handle is present the cache holds a value, so a call
\* that awaits a revalidation saw a value when it began and returns a value,
\* never null and never an error, however the revalidation ended.
C19_JoinReturnsValue ==
    /\ cache.revalidationPromise # NULL => cache.data # NULL
    /\ \A J \in joiners : J.entry.pre.data # NULL
    /\ \A r \in resp : r.path = "join" =>
          /\ r.entry.pre.revalidationPromise # NULL
          /\ r.entry.pre.data # NULL
          /\ ~r.threw /\ r.data # NULL /\ r.data = cache.data

\* C19 witness: a call that awaited a revalidation which ended with a
\* response without a profile returns the value it found cached.
C19_Witness ==
    \E r \in resp :
        /\ r.path = "join" /\ r.outcome = "noprofile"
        /\ r.data # NULL /\ r.data = r.entry.pre.data

\* C20: when fetchMarketCap throws, the handler answers 200 with the cached
\* value and the tag cache-error-fallback if a fetch has ever succeeded, and
\* 500 without a value only if none ever has; neither the step in which the
\* call throws nor the step in which the answer is sent changes the cache.
C20_ErrorFallback ==
    [][ /\ \A r \in resp' : r.threw =>
              /\ installedAt' >= 0 =>
                    /\ r.answer.status = 200 /\ r.answer.success
                    /\ r.answer.source = "cache-error-fallback"
                    /\ r.answer.data = cache'.data /\ cache'.data # NULL
              /\ installedAt' < 0 =>
                    /\ r.answer.status = 500 /\ ~r.answer.success
                    /\ r.answer.data = NULL /\ cache'.data = NULL
              /\ r \notin resp => cache' = cache
        /\ (\E r \in resp : r.threw /\ r \notin resp') => cache' = cache
      ]_vars

\* C20 witness: the foreground fetch of a call that found an expired value
\* failed; the handler answers 200 with that value as fallback.
C20_Witness ==
    \E r \in resp :
        /\ r.threw /\ r.path = "foreground"
        /\ r.entry.pre.data # NULL
        /\ r.answer.status = 200
        /\ r.answer.source = "cache-error-fallback"
        /\ r.answer.data = r.entry.pre.data

\* C16: every fetch that is running eventually ends, so the call awaiting a
\* foreground fetch returns or throws; every revalidation handle that is set
\* is eventually cleared; every call awaiting a revalidation is eventually
\* resumed; every call that ended is eventually answered.  No getProfile
\* promise is required to settle.
C16_EveryCallEnds ==
    /\ \A id \in OpIds :
          (\E F \in fetches : F.id = id) ~> (\A F \in fetches : F.id # id)
    /\ \A id \in OpIds :
          (cache.revalidationPromise = id) ~> (cache.revalidationPromise # id)
    /\ \A id \in OpIds :
          (\E J \in joiners : J.awaiting = id)
              ~> (\A J \in joiners : J.awaiting # id)
    /\ (resp # {}) ~> (resp = {})

\* C16 witness: a call that awaited a revalidation is resumed after every
\* attempt of the revalidation timed out, none of its promises having
\* settled; the handle is cleared.
C16_Witness ==
    \E r \in resp :
        /\ r.path = "join" /\ r.outcome = "exhausted"
        /\ \A o \in OpsOf(r.awaited) : ops[o].timedOut /\ ops[o].st = "pending"
        /\ cache.revalidationPromise = NULL /\ ~cache.isRevalidating

====
